---- MODULE Spec2Model ----
(***************************************************************************)
(* The apt backend of syspkg (manager/apt/apt.go).                         *)
(*                                                                         *)
(* PackageManager is a stateless struct: every operation builds one        *)
(* exec.Cmd, runs it and returns.  The state of the model is the search    *)
(* path the binaries are looked up in, the package-level variable          *)
(* ENV_NonInteractive, and an observation of the last call: its inputs,    *)
(* the exec.Cmd it built, what the child process did, what the call wrote  *)
(* to the logging channel and what it returned.                            *)
(*                                                                         *)
(* A *manager.Options pointer is a sequence: <<>> is nil, <<o>> points to  *)
(* the record o.  A []string is a sequence; cmd.Env = nil (inherit the     *)
(* caller's environment) is <<>>.  A child's stdout is a sequence of       *)
(* lines, a line a sequence of whitespace separated fields.                *)
(***************************************************************************)
EXTENDS Naturals, Sequences, FiniteSets

VARIABLES present, ENV_NonInteractive, op, arg, cmd, child, parsed, logged, ret

vars == <<present, ENV_NonInteractive, op, arg, cmd, child, parsed, logged, ret>>

\* ---------------------------------------------------------------- bounds

\* longest package / keyword list a call is given
MaxPkgs == 1

\* ------------------------------------------------------------- constants

pm == "apt"

ArgsAssumeYes == "-y"

ArgsDryRun == "--dry-run"

ArgsFixBroken == "-f"

ArgsPurge == "--purge"

ArgsAutoRemove == "--autoremove"

\* the binaries the operations invoke
Binaries == {"apt", "dpkg-query", "apt-cache"}

\* the value of ENV_NonInteractive at package initialisation
EnvInit == <<"LC_ALL=C", "DEBIAN_FRONTEND=noninteractive", "DEBCONF_NONINTERACTIVE_SEEN=true">>

\* ----------------------------------------------------------------- inputs

\* package names and keywords a caller may pass; they are not validated,
\* so a name may look like a flag
PkgNames == {"vim", ArgsAssumeYes}

SeqsUpTo(S, n) == UNION {[1..k -> S] : k \in 0..n}

PkgLists == SeqsUpTo(PkgNames, MaxPkgs)

\* manager.Options
Options == [DryRun : BOOLEAN, Interactive : BOOLEAN, Verbose : BOOLEAN]

\* *manager.Options: nil or a pointer to an Options value
OptsPtr == {<<>>} \cup {<<o>> : o \in Options}

\* lines a child may print: a package entry, or a banner
Entry == <<"vim", "1.0">>

Banner == <<"Reading">>

\* what a child may write to stdout: nothing, a banner alone, a banner and
\* a package entry
Outputs == {<<>>, <<Banner>>, <<Banner, Entry>>}

\* manager.PackageInfo{}
ZeroInfo == [name |-> "", version |-> "", status |-> ""]

\* ---------------------------------------------------------------- helpers

OrDefaultInteractive(o) ==
    IF o = <<>>
    THEN [DryRun |-> FALSE, Interactive |-> TRUE, Verbose |-> FALSE]
    ELSE o[1]

\* the inline default every operation substitutes for a nil opts
OrDefault(o) ==
    IF o = <<>>
    THEN [DryRun |-> FALSE, Interactive |-> FALSE, Verbose |-> FALSE]
    ELSE o[1]

\* exec.Command(name, ...) followed by cmd.Run() / cmd.Output(): the binary
\* is looked up on the search path; when it is missing no process is
\* launched and the lookup error is returned; otherwise the process may
\* still fail to start, or it writes some text to stdout and exits zero or
\* non-zero
ChildOutcomes(name) ==
    IF name \notin present
    THEN {[err |-> "ErrNotFound", out |-> <<>>, launched |-> FALSE]}
    ELSE {[err |-> "StartError", out |-> <<>>, launched |-> FALSE]}
             \cup {[err |-> e, out |-> o, launched |-> TRUE] :
                       e \in {"nil", "ExitError"}, o \in Outputs}

\* a command with the caller's stdin/stdout/stderr attached, run with cmd.Run()
Attached(name, args, env, r) ==
    [name |-> name, args |-> args, env |-> env,
     attached |-> TRUE, captured |-> FALSE, launched |-> r.launched]

\* a command whose stdout is captured by cmd.Output()
Captured(name, args, env, r) ==
    [name |-> name, args |-> args, env |-> env,
     attached |-> FALSE, captured |-> TRUE, launched |-> r.launched]

\* ---------------------------------------------------------------- parsers
\* utils.go is not part of the sources; the parsers follow the
\* specification: total, order preserving, lines of another shape dropped,
\* the options used for diagnostics only (nil allowed).

IsEntry(line) == Len(line) = 2

RECURSIVE ParseLines(_, _)
ParseLines(out, status) ==
    IF out = <<>> THEN <<>>
    ELSE LET rest == ParseLines(Tail(out), status)
         IN IF IsEntry(Head(out))
            THEN <<[name |-> Head(out)[1], version |-> Head(out)[2], status |-> status]>> \o rest
            ELSE rest

ParseInstallOutput(out, opts) == ParseLines(out, "installed")

ParseDeletedOutput(out, opts) == ParseLines(out, "removed")

ParseFindOutput(out, opts) == ParseLines(out, "available")

ParseListInstalledOutput(out, opts) == ParseLines(out, "installed")

ParseListUpgradableOutput(out, opts) == ParseLines(out, "upgradable")

ParsePackageInfoOutput(out, opts) ==
    LET l == ParseLines(out, "available")
    IN IF l = <<>> THEN ZeroInfo ELSE l[1]

\* --------------------------------------------------------- initial state

NoCmd ==
    [name |-> "", args |-> <<>>, env |-> <<>>,
     attached |-> FALSE, captured |-> FALSE, launched |-> FALSE]

NoChild == [err |-> "nil", out |-> <<>>, launched |-> FALSE]

\* the zero value of every result an operation can return
NoRet == [ok |-> FALSE, data |-> <<>>, info |-> ZeroInfo, err |-> "nil"]

Init ==
    /\ present \in SUBSET Binaries
    /\ ENV_NonInteractive = EnvInit
    /\ op = "none"
    /\ arg = [pkgs |-> <<>>, opts |-> <<>>]
    /\ cmd = NoCmd
    /\ child = NoChild
    /\ parsed = FALSE
    /\ logged = <<>>
    /\ ret = NoRet

\* ------------------------------------------------------------ operations

LookPathDpkg == "dpkg-query" \in present

\* exec.LookPath(pm) succeeds
LookPathOk == pm \in present

IsAvailable ==
    /\ op' = "IsAvailable"
    /\ arg' = [pkgs |-> <<>>, opts |-> <<>>]
    /\ cmd' = NoCmd
    /\ child' = NoChild
    /\ parsed' = FALSE
    /\ logged' = <<>>
    /\ ret' = [NoRet EXCEPT !.ok = LookPathOk]
    /\ UNCHANGED <<present, ENV_NonInteractive>>

\* the tail every mutating operation appends to its base arguments
FlagsNoDryRun(args, opts) ==
    IF ~opts.Interactive THEN Append(args, ArgsAssumeYes) ELSE args

Flags(args, opts) ==
    LET a == IF opts.DryRun THEN Append(args, ArgsDryRun) ELSE args
    IN IF ~opts.Interactive THEN Append(a, ArgsAssumeYes) ELSE a

InstallArgs(pkgs, opts) == Flags(<<"install", ArgsFixBroken>> \o pkgs, opts)

DeleteArgsPurge(pkgs, opts) ==
    Flags(<<"remove", ArgsFixBroken, ArgsPurge, ArgsAutoRemove>> \o pkgs, opts)

DeleteArgs(pkgs, opts) ==
    Flags(<<"remove", ArgsFixBroken, ArgsAutoRemove>> \o pkgs, opts)

UpgradeArgsNoDryRun(opts) == FlagsNoDryRun(<<"upgrade">>, opts)

UpgradeArgs(opts) == Flags(<<"upgrade">>, opts)

AutoRemoveArgs(opts) == Flags(<<"autoremove">>, opts)

\* what a call that returns (nil, err) or err alone hands back
Failure(err) == [NoRet EXCEPT !.err = err]

\* what a call that returns (records, nil) hands back
Records(data) == [NoRet EXCEPT !.data = data]

\* the observation every operation leaves behind
Observe(name, pkgs, o, c, r, p, l, v) ==
    /\ op' = name
    /\ arg' = [pkgs |-> pkgs, opts |-> o]
    /\ cmd' = c
    /\ child' = r
    /\ parsed' = p
    /\ logged' = l
    /\ ret' = v
    /\ UNCHANGED <<present, ENV_NonInteractive>>

\* -- Install

InstallCmdAlwaysCaptured(args, opts, r) == Captured(pm, args, ENV_NonInteractive, r)

InstallCmd(args, opts, r) ==
    IF opts.Interactive
    THEN Attached(pm, args, <<>>, r)
    ELSE Captured(pm, args, ENV_NonInteractive, r)

InstallResultKeepsOutput(opts, r) ==
    IF opts.Interactive
    THEN Failure(r.err)
    ELSE [NoRet EXCEPT !.data = ParseInstallOutput(r.out, <<opts>>), !.err = r.err]

InstallResult(opts, r) ==
    IF opts.Interactive
    THEN Failure(r.err)
    ELSE IF r.err # "nil"
         THEN Failure(r.err)
         ELSE Records(ParseInstallOutput(r.out, <<opts>>))

Install(pkgs, o, r) ==
    LET opts == OrDefault(o)
        args == InstallArgs(pkgs, opts)
    IN Observe("Install", pkgs, o, InstallCmd(args, opts, r), r,
                  ~opts.Interactive /\ r.err = "nil", <<>>, InstallResult(opts, r))

\* -- Delete

DeleteCmd(args, opts, r) ==
    IF opts.Interactive
    THEN Attached(pm, args, <<>>, r)
    ELSE Captured(pm, args, ENV_NonInteractive, r)

DeleteResult(opts, r) ==
    IF opts.Interactive
    THEN Failure(r.err)
    ELSE IF r.err # "nil"
         THEN Failure(r.err)
         ELSE Records(ParseDeletedOutput(r.out, <<opts>>))

Delete(pkgs, o, r) ==
    LET opts == OrDefault(o)
        args == DeleteArgs(pkgs, opts)
    IN Observe("Delete", pkgs, o, DeleteCmd(args, opts, r), r,
                  ~opts.Interactive /\ r.err = "nil", <<>>, DeleteResult(opts, r))

\* -- Refresh: cmd.Env is set before the interactive branch is taken

RefreshCmd(opts, r) ==
    IF opts.Interactive
    THEN Attached(pm, <<"update">>, ENV_NonInteractive, r)
    ELSE Captured(pm, <<"update">>, ENV_NonInteractive, r)

RefreshLogAlways(opts, r) ==
    IF ~opts.Interactive /\ r.err = "nil" THEN <<r.out>> ELSE <<>>

\* log.Println(string(out)) on the captured path
RefreshLog(opts, r) ==
    IF ~opts.Interactive /\ r.err = "nil" /\ opts.Verbose THEN <<r.out>> ELSE <<>>

Refresh(o, r) ==
    LET opts == OrDefault(o)
    IN Observe("Refresh", <<>>, o, RefreshCmd(opts, r), r,
                  FALSE, RefreshLog(opts, r), Failure(r.err))

\* -- Find: the binary is the literal "apt"; opts reaches the parser as given

FindCmd(keywords, r) ==
    Captured("apt", <<"search">> \o keywords, ENV_NonInteractive, r)

FindResult(o, r) ==
    IF r.err # "nil" THEN Failure(r.err) ELSE Records(ParseFindOutput(r.out, o))

Find(keywords, o, r) ==
    Observe("Find", keywords, o, FindCmd(keywords, r), r,
               r.err = "nil", <<>>, FindResult(o, r))

\* -- ListInstalled

\* "${binary:Package} ${Version}\n"
DpkgFormat == "${binary:Package} ${Version}\\n"

ListInstalledCmd(r) ==
    Captured("dpkg-query", <<"-W", "-f", DpkgFormat>>, ENV_NonInteractive, r)

ListInstalledResult(o, r) ==
    IF r.err # "nil" THEN Failure(r.err) ELSE Records(ParseListInstalledOutput(r.out, o))

ListInstalled(o, r) ==
    Observe("ListInstalled", <<>>, o, ListInstalledCmd(r), r,
               r.err = "nil", <<>>, ListInstalledResult(o, r))

\* -- ListUpgradable

ListUpgradableCmdNoEnv(r) ==
    Captured(pm, <<"list", "--upgradable">>, <<>>, r)

ListUpgradableCmd(r) ==
    Captured(pm, <<"list", "--upgradable">>, ENV_NonInteractive, r)

ListUpgradableResult(o, r) ==
    IF r.err # "nil" THEN Failure(r.err) ELSE Records(ParseListUpgradableOutput(r.out, o))

ListUpgradable(o, r) ==
    /\ r \in ChildOutcomes(pm)
    /\ Observe("ListUpgradable", <<>>, o, ListUpgradableCmd(r), r,
               r.err = "nil", <<>>, ListUpgradableResult(o, r))

\* -- Upgrade

UpgradeCmd(args, opts, r) ==
    IF opts.Interactive
    THEN Attached(pm, args, <<>>, r)
    ELSE Captured(pm, args, ENV_NonInteractive, r)

UpgradeResult(opts, r) ==
    IF opts.Interactive
    THEN Failure(r.err)
    ELSE IF r.err # "nil"
         THEN Failure(r.err)
         ELSE Records(ParseInstallOutput(r.out, <<opts>>))

Upgrade(o, r) ==
    LET opts == OrDefault(o)
        args == UpgradeArgs(opts)
    IN Observe("Upgrade", <<>>, o, UpgradeCmd(args, opts, r), r,
                  ~opts.Interactive /\ r.err = "nil", <<>>, UpgradeResult(opts, r))

\* -- Clean: as Refresh, cmd.Env is set before the interactive branch

CleanCmd(opts, r) ==
    IF opts.Interactive
    THEN Attached(pm, <<"autoclean">>, ENV_NonInteractive, r)
    ELSE Captured(pm, <<"autoclean">>, ENV_NonInteractive, r)

CleanLog(opts, r) ==
    IF ~opts.Interactive /\ r.err = "nil" /\ opts.Verbose THEN <<r.out>> ELSE <<>>

Clean(o, r) ==
    LET opts == OrDefault(o)
    IN Observe("Clean", <<>>, o, CleanCmd(opts, r), r,
                  FALSE, CleanLog(opts, r), Failure(r.err))

\* -- GetPackageInfo

GetPackageInfoCmd(pkg, r) ==
    Captured("apt-cache", <<"show", pkg>>, ENV_NonInteractive, r)

GetPackageInfoResult(o, r) ==
    IF r.err # "nil"
    THEN Failure(r.err)
    ELSE [NoRet EXCEPT !.info = ParsePackageInfoOutput(r.out, o)]

GetPackageInfo(pkg, o, r) ==
    Observe("GetPackageInfo", <<pkg>>, o, GetPackageInfoCmd(pkg, r), r,
               r.err = "nil", <<>>, GetPackageInfoResult(o, r))

\* -- AutoRemove

AutoRemoveCmd(args, opts, r) ==
    IF opts.Interactive
    THEN Attached(pm, args, <<>>, r)
    ELSE Captured(pm, args, ENV_NonInteractive, r)

AutoRemoveResult(opts, r) ==
    IF opts.Interactive
    THEN Failure(r.err)
    ELSE IF r.err # "nil"
         THEN Failure(r.err)
         ELSE Records(ParseDeletedOutput(r.out, <<opts>>))

AutoRemove(o, r) ==
    LET opts == OrDefault(o)
        args == AutoRemoveArgs(opts)
    IN Observe("AutoRemove", <<>>, o, AutoRemoveCmd(args, opts, r), r,
                  ~opts.Interactive /\ r.err = "nil", <<>>, AutoRemoveResult(opts, r))

\* ---------------------------------------------------------- specification

Next ==
    \/ IsAvailable
    \/ \E pkgs \in PkgLists, o \in OptsPtr, r \in ChildOutcomes(pm) : Install(pkgs, o, r)
    \/ \E pkgs \in PkgLists, o \in OptsPtr, r \in ChildOutcomes(pm) : Delete(pkgs, o, r)
    \/ \E o \in OptsPtr, r \in ChildOutcomes(pm) : Refresh(o, r)
    \/ \E kw \in PkgLists, o \in OptsPtr, r \in ChildOutcomes("apt") : Find(kw, o, r)
    \/ \E o \in OptsPtr, r \in ChildOutcomes("dpkg-query") : ListInstalled(o, r)
    \/ \E o \in OptsPtr, r \in ChildOutcomes(pm) : ListUpgradable(o, r)
    \/ \E o \in OptsPtr, r \in ChildOutcomes(pm) : Upgrade(o, r)
    \/ \E o \in OptsPtr, r \in ChildOutcomes(pm) : Clean(o, r)
    \/ \E pkg \in PkgNames, o \in OptsPtr, r \in ChildOutcomes("apt-cache") : GetPackageInfo(pkg, o, r)
    \/ \E o \in OptsPtr, r \in ChildOutcomes(pm) : AutoRemove(o, r)

Spec == Init /\ [][Next]_vars

\* ----------------------------------------------------------------- claims

MutatingOps == {"Install", "Delete", "Upgrade", "AutoRemove"}

\* the operations that branch on opts.Interactive
BranchingOps == MutatingOps \cup {"Refresh", "Clean"}

QueryOps == {"Find", "ListInstalled", "ListUpgradable", "GetPackageInfo"}

AllOps == BranchingOps \cup QueryOps

\* the operations that invoke the apt binary
AptOps == BranchingOps \cup {"Find", "ListUpgradable"}

\* the configuration the caller asked for; an absent one is all flags false
Interactive == arg.opts # <<>> /\ arg.opts[1].Interactive

DryRun == arg.opts # <<>> /\ arg.opts[1].DryRun

Verbose == arg.opts # <<>> /\ arg.opts[1].Verbose

Has(s, x) == \E i \in 1..Len(s) : s[i] = x

ThreeEntries == <<"LC_ALL=C", "DEBIAN_FRONTEND=noninteractive", "DEBCONF_NONINTERACTIVE_SEEN=true">>

\* the call handed back no structured data and never ran a parser
NoStructuredData == ~parsed /\ ret.data = <<>> /\ ret.info = ZeroInfo

\* C1: for Install, Delete, Upgrade and AutoRemove, whatever the package
\* list and the configuration, the argument list contains "-y" exactly when
\* the call is not interactive.
C1_AssumeYesIffNotInteractive ==
    op \in MutatingOps => (Has(cmd.args, "-y") <=> ~Interactive)

\* C2: every mutating operation called with dryRun = true passes
\* "--dry-run" to the external process, whatever interactive and verbose are.
C2_DryRunFlag ==
    (op \in MutatingOps /\ DryRun) => Has(cmd.args, "--dry-run")

C2_Witness ==
    op = "Upgrade" /\ DryRun /\ Interactive /\ Verbose /\ cmd.launched

\* C3 as stated: every operation, the four queries included, called with
\* interactive = true runs its child with the caller's streams attached,
\* captures nothing, runs no parser and returns no structured data.
C3_InteractiveEveryOperation ==
    (op \in AllOps /\ Interactive /\ cmd.launched) =>
        (cmd.attached /\ ~cmd.captured /\ NoStructuredData)

\* C3 amended: that holds of the six operations that branch on the flag;
\* Find, ListInstalled, ListUpgradable and GetPackageInfo ignore it, always
\* capture stdout and run their parser whenever the child succeeds.
C3_InteractiveBranchingOperations ==
    /\ (op \in BranchingOps /\ Interactive) =>
           (cmd.attached /\ ~cmd.captured /\ NoStructuredData)
    /\ op \in QueryOps =>
           (cmd.captured /\ ~cmd.attached /\ (parsed <=> child.err = "nil"))

C3_Witness ==
    /\ op = "Install"
    /\ Interactive
    /\ child.launched
    /\ child.err = "nil"
    /\ child.out = <<Banner, Entry>>

\* C4: a captured (non-interactive) call whose child fails to start or
\* exits non-zero returns that execution error and no structured records,
\* whatever the child printed; no parser result comes with an error.
C4_FailureNoRecords ==
    /\ (cmd.captured /\ child.err # "nil") =>
           (ret.err = child.err /\ NoStructuredData)
    /\ ret.err # "nil" => NoStructuredData

C4_Witness ==
    /\ op = "Install"
    /\ cmd.captured
    /\ child.err = "ExitError"
    /\ child.out = <<Banner, Entry>>

\* C5: on the captured (non-interactive) path the child's environment is
\* exactly the three fixed entries, in every call of every behaviour.
C5_NonInteractiveEnv ==
    /\ ENV_NonInteractive = ThreeEntries
    /\ cmd.captured => cmd.env = ThreeEntries

C5_Witness ==
    op = "ListUpgradable" /\ cmd.captured /\ cmd.launched

\* C6 as stated: with apt absent from the search path IsAvailable returns
\* false and no operation launches an external process.
C6_NoLaunchWhenUnavailable ==
    "apt" \notin present =>
        /\ op = "IsAvailable" => ~ret.ok
        /\ ~cmd.launched

\* C6 amended: IsAvailable returns whether apt is on the search path; while
\* it is absent the eight operations that invoke apt launch nothing and
\* return the lookup error (ListInstalled and GetPackageInfo invoke
\* dpkg-query and apt-cache, which the probe does not look at).
C6_NoAptLaunchWhenUnavailable ==
    /\ op = "IsAvailable" => (ret.ok <=> "apt" \in present) /\ ret.err = "nil"
    /\ ("apt" \notin present /\ op \in AptOps) =>
           (~cmd.launched /\ ret.err = "ErrNotFound" /\ NoStructuredData)

C6_Witness ==
    /\ op = "IsAvailable"
    /\ "apt" \notin present
    /\ "dpkg-query" \in present
    /\ ~ret.ok

\* C7: a call with a nil configuration and the same call (same operation,
\* same packages, same child outcome) with the all-false configuration
\* build the same command and environment, handle the streams the same way
\* and return the same result.
C7_NilIsAllFalse ==
    [][(/\ op' = op
        /\ arg'.pkgs = arg.pkgs
        /\ child' = child
        /\ arg.opts = <<>>
        /\ arg'.opts = <<[DryRun |-> FALSE, Interactive |-> FALSE, Verbose |-> FALSE]>>)
       => (cmd' = cmd /\ parsed' = parsed /\ logged' = logged /\ ret' = ret)]_vars

C7_Witness ==
    /\ op = "Install"
    /\ arg.opts = <<>>
    /\ arg.pkgs # <<>>
    /\ child.err = "nil"
    /\ ret.data # <<>>

\* C8: the command line of each operation is the one of the fixed table.
C8_CommandTable ==
    LET flags == (IF DryRun THEN <<"--dry-run">> ELSE <<>>)
                     \o (IF Interactive THEN <<>> ELSE <<"-y">>)
    IN /\ op = "Install" =>
              cmd.name = "apt" /\ cmd.args = <<"install", "-f">> \o arg.pkgs \o flags
       /\ op = "Delete" =>
              cmd.name = "apt"
                  /\ cmd.args = <<"remove", "-f", "--autoremove">> \o arg.pkgs \o flags
       /\ op = "Upgrade" => cmd.name = "apt" /\ cmd.args = <<"upgrade">> \o flags
       /\ op = "AutoRemove" => cmd.name = "apt" /\ cmd.args = <<"autoremove">> \o flags
       /\ op = "Refresh" => cmd.name = "apt" /\ cmd.args = <<"update">>
       /\ op = "Clean" => cmd.name = "apt" /\ cmd.args = <<"autoclean">>
       /\ op = "Find" => cmd.name = "apt" /\ cmd.args = <<"search">> \o arg.pkgs
       /\ op = "ListUpgradable" =>
              cmd.name = "apt" /\ cmd.args = <<"list", "--upgradable">>
       /\ op = "ListInstalled" =>
              cmd.name = "dpkg-query"
                  /\ cmd.args = <<"-W", "-f", "${binary:Package} ${Version}\\n">>
       /\ op = "GetPackageInfo" =>
              cmd.name = "apt-cache" /\ cmd.args = <<"show">> \o arg.pkgs

C8_Witness ==
    op = "Delete" /\ arg.pkgs # <<>> /\ DryRun /\ ~Interactive /\ cmd.launched

\* C9 as stated: Refresh and Clean return no structured data; whenever one
\* succeeds with verbose = true the child's output is logged; with
\* verbose = false or on failure nothing is logged.
C9_VerboseSuccessLogged ==
    op \in {"Refresh", "Clean"} =>
        /\ NoStructuredData
        /\ (ret.err = "nil" /\ Verbose) => logged = <<child.out>>
        /\ (ret.err # "nil" \/ ~Verbose) => logged = <<>>

\* C9 amended: the output is logged whenever one succeeds non-interactively
\* with verbose = true; an interactive call captures nothing and logs
\* nothing, like a failed or a non-verbose one.
C9_CapturedVerboseSuccessLogged ==
    op \in {"Refresh", "Clean"} =>
        /\ NoStructuredData
        /\ (ret.err = "nil" /\ Verbose /\ ~Interactive) => logged = <<child.out>>
        /\ (ret.err # "nil" \/ ~Verbose \/ Interactive) => logged = <<>>

C9_Witness ==
    /\ op = "Refresh"
    /\ Verbose
    /\ ~Interactive
    /\ ret.err = "nil"
    /\ child.out = <<Banner, Entry>>
    /\ logged = <<child.out>>

\* C10: for every operation the three-variable environment is set on the
\* child process exactly when it is run non-interactively; an interactive
\* call leaves cmd.Env unset.
C10_EnvIffNonInteractive ==
    (op \in AllOps /\ cmd.launched) =>
        /\ cmd.env = ThreeEntries <=> cmd.captured
        /\ cmd.attached => cmd.env = <<>>

====
